---- MODULE Spec2Model ----
\* Model of the Teacher Assistant Chatbot service (src/main.py): the
\* process-wide conversation store, the POST /chat handler with its one
\* suspension point (the profile fetch), and GET /instructor/{id}.
EXTENDS Integers, Sequences, FiniteSets, TLC

\* ---------------------------------------------------------------- bounds
\* Number of HTTP requests the model lets the clients issue in one run.
MaxReq == 2

\* ---------------------------------------------------------------- inputs
\* ChatRequest.instructor_id default (main.py:19) and
\* fetch_instructor_profile default (main.py:30).
DefaultInstructorId == 24775

\* Explicit instructor ids the clients send.
InstructorIds == {1}

\* An optional JSON field is the empty set (absent) or a singleton.
OptInstructorId == {{}} \cup {{i} : i \in InstructorIds}

\* Texts are sequences of tokens.
Messages == {<<"m1">>, <<"m2">>}
Replies == {<<"r1">>, <<"r2">>}

\* Profile documents: a JSON object as its sequence of key/value pairs.
Docs == { <<<<"name", "Ann">>>>,
          <<<<"name", "Bob">>, <<"subject", "Math">>>> }

\* What the profile service can answer to a GET.
FetchErrors == { [type |-> "status", code |-> 404, text |-> <<"not found">>],
                 [type |-> "network", code |-> 0, text |-> <<"connect failed">>] }

\* What the completion endpoint can do with a message list.
Completions == { [ok |-> TRUE, text |-> r] : r \in Replies }
               \cup { [ok |-> FALSE, text |-> <<"timeout">>] }

\* ---------------------------------------------------------------- state
VARIABLES
    conversations,   \* main.py:28, instructor_id -> list of messages
    requests,        \* the requests issued so far, in arrival order
    turns            \* per key, the ids of the requests whose
                     \* generate_chat_response ran, in the order they ran

vars == <<conversations, requests, turns>>

\* ---------------------------------------------------------------- pure parts
\* The URL fetch_instructor_profile GETs for an id (main.py:35).
ProfileUrl(instructor_id) ==
    <<"https://ace.prismaticcrm.com/api/instructor-profile/", instructor_id>>

\* A URL a client may put in a profile_url field of the body.
ClientUrls == {ProfileUrl(1)}
OptProfileUrl == {{}} \cup {{u} : u \in ClientUrls}

\* ChatRequest with another default id.
ChatRequest_WrongDefault(body) ==
    [message |-> body.message,
     instructor_id |-> IF body.instructor_id = {}
                       THEN CHOOSE i \in InstructorIds : TRUE
                       ELSE CHOOSE i \in body.instructor_id : TRUE]

\* ChatRequest that lets a profile_url of the body decide the id.
ChatRequest_UrlFirst(body) ==
    [message |-> body.message,
     instructor_id |-> IF body.profile_url # {}
                       THEN (CHOOSE u \in body.profile_url : TRUE)[2]
                       ELSE IF body.instructor_id = {}
                            THEN DefaultInstructorId
                            ELSE CHOOSE i \in body.instructor_id : TRUE]

\* Parsing of the request body by ChatRequest (main.py:17-19): the model has
\* the fields message and instructor_id only; an absent instructor_id takes
\* the default, any other field of the body is ignored.
ChatRequest(body) ==
    [message |-> body.message,
     instructor_id |-> IF body.instructor_id = {}
                       THEN DefaultInstructorId
                       ELSE CHOOSE i \in body.instructor_id : TRUE]

RECURSIVE DumpPairs(_)
DumpPairs(pairs) ==
    IF pairs = <<>> THEN <<>>
    ELSE <<pairs[1][1], ":", pairs[1][2]>>
         \o (IF Len(pairs) > 1 THEN <<",">> ELSE <<>>)
         \o DumpPairs(Tail(pairs))

\* json.dumps(instructor_data, indent=2) (main.py:46).
JsonDumps(doc) == <<"{">> \o DumpPairs(doc) \o <<"}">>

\* create_system_prompt (main.py:44-62).
create_system_prompt(instructor_data) ==
    <<"You are an AI assistant helping a teacher">>
    \o JsonDumps(instructor_data)
    \o <<"Rules">>

\* Seeding without the membership test: every turn starts the list again.
SeedConversation_Always(convs, instructor_id, instructor_data) ==
    [k \in DOMAIN convs \cup {instructor_id} |->
        IF k = instructor_id
        THEN << [role |-> "system",
                 content |-> create_system_prompt(instructor_data)] >>
        ELSE convs[k]]

\* Seeding that rewrites the system message of an existing session from the
\* document of the current turn.
SeedConversation_Refresh(convs, instructor_id, instructor_data) ==
    [k \in DOMAIN convs \cup {instructor_id} |->
        IF k = instructor_id
        THEN << [role |-> "system",
                 content |-> create_system_prompt(instructor_data)] >>
             \o (IF k \in DOMAIN convs THEN Tail(convs[k]) ELSE << >>)
        ELSE convs[k]]

\* main.py:68-71: seed the conversation when the id is not in the store.
SeedConversation(convs, instructor_id, instructor_data) ==
    IF instructor_id \in DOMAIN convs
    THEN convs
    ELSE [k \in DOMAIN convs \cup {instructor_id} |->
            IF k = instructor_id
            THEN << [role |-> "system",
                     content |-> create_system_prompt(instructor_data)] >>
            ELSE convs[k]]

\* The user message appended to one list shared by all keys.
AppendUser_AllKeys(convs, instructor_id, message) ==
    [k \in DOMAIN convs |->
        Append(convs[k], [role |-> "user", content |-> message])]

\* main.py:74.
AppendUser(convs, instructor_id, message) ==
    [convs EXCEPT ![instructor_id] =
        Append(@, [role |-> "user", content |-> message])]

\* The reply is returned but not stored.
AppendAssistant_Skip(convs, instructor_id, bot_response) == convs

\* The reply inserted at the head of the list instead of its end.
AppendAssistant_AtHead(convs, instructor_id, bot_response) ==
    [convs EXCEPT ![instructor_id] =
        << [role |-> "assistant", content |-> bot_response] >> \o @]

\* main.py:87.
AppendAssistant(convs, instructor_id, bot_response) ==
    [convs EXCEPT ![instructor_id] =
        Append(@, [role |-> "assistant", content |-> bot_response])]

\* The completion endpoint called before the user message is appended.
generate_chat_response_CallFirst(convs, message, instructor_id, instructor_data, completion) ==
    LET seeded == SeedConversation(convs, instructor_id, instructor_data)
        withUser == AppendUser(seeded, instructor_id, message)
    IN  IF completion.ok
        THEN [conversations |-> AppendAssistant(withUser, instructor_id, completion.text),
              sent |-> seeded[instructor_id],
              status |-> 200,
              detail |-> completion.text]
        ELSE [conversations |-> withUser,
              sent |-> seeded[instructor_id],
              status |-> 500,
              detail |-> <<"Error generating response: ">> \o completion.text]

\* generate_chat_response (main.py:64-92). It holds no await, so it runs
\* in one step of the event loop. completion is what the completion endpoint
\* does with the messages sent to it.
generate_chat_response(convs, message, instructor_id, instructor_data, completion) ==
    LET seeded == SeedConversation(convs, instructor_id, instructor_data)
        withUser == AppendUser(seeded, instructor_id, message)
    IN  IF completion.ok
        THEN [conversations |-> AppendAssistant(withUser, instructor_id, completion.text),
              sent |-> withUser[instructor_id],
              status |-> 200,
              detail |-> completion.text]
        ELSE [conversations |-> withUser,
              sent |-> withUser[instructor_id],
              status |-> 500,
              detail |-> <<"Error generating response: ">> \o completion.text]

\* Every fetch failure answered 500.
FetchException_Always500(err) ==
    [status |-> 500,
     detail |-> <<"Error fetching instructor profile: ">> \o err.text]

\* The HTTPException fetch_instructor_profile raises (main.py:39-42).
FetchException(err) ==
    IF err.type = "network"
    THEN [status |-> 500,
          detail |-> <<"Error fetching instructor profile: ">> \o err.text]
    ELSE [status |-> err.code,
          detail |-> <<"API returned error: ">> \o err.text]

\* ---------------------------------------------------------------- actions
Keys == InstructorIds \cup {DefaultInstructorId}

Init ==
    /\ conversations = << >>
    /\ requests = << >>
    /\ turns = [k \in Keys |-> << >>]

\* POST /chat up to the await of client.get (main.py:95-97, 30-36).
ChatStart(body) ==
    /\ Len(requests) < MaxReq
    /\ LET req == ChatRequest(body) IN
       requests' = Append(requests,
          [kind |-> "chat",
           body |-> body,
           message |-> req.message,
           instructor_id |-> req.instructor_id,
           url |-> ProfileUrl(req.instructor_id),
           pc |-> "fetch",
           absentAtStart |-> req.instructor_id \notin DOMAIN conversations,
           fetched |-> "pending",
           upstream |-> [type |-> "none", code |-> 0, text |-> << >>],
           doc |-> << >>,
           created |-> FALSE,
           completion |-> "none",
           sent |-> << >>,
           before |-> << >>,
           status |-> 0,
           detail |-> << >>])
    /\ UNCHANGED <<conversations, turns>>

\* The profile fetch of a chat request fails: the HTTPException leaves
\* chat_with_teacher_assistant at main.py:97.
ChatFetchFail(r, err) ==
    /\ requests[r].kind = "chat"
    /\ requests[r].pc = "fetch"
    /\ LET exc == FetchException(err) IN
       requests' = [requests EXCEPT ![r].pc = "done",
                                    ![r].fetched = "failed",
                                    ![r].upstream = err,
                                    ![r].status = exc.status,
                                    ![r].detail = exc.detail]
    /\ UNCHANGED <<conversations, turns>>

\* The profile fetch returns a document; generate_chat_response runs to its
\* end and the response is returned (main.py:97-99).
ChatFetchOk(r, doc, completion) ==
    /\ requests[r].kind = "chat"
    /\ requests[r].pc = "fetch"
    /\ LET id == requests[r].instructor_id
           res == generate_chat_response(conversations, requests[r].message,
                                         id, doc, completion)
       IN  /\ conversations' = res.conversations
           /\ requests' = [requests EXCEPT
                  ![r].pc = "done",
                  ![r].fetched = "ok",
                  ![r].doc = doc,
                  ![r].created = (id \notin DOMAIN conversations),
                  ![r].before = IF id \in DOMAIN conversations
                                THEN conversations[id] ELSE << >>,
                  ![r].completion = IF completion.ok THEN "ok" ELSE "failed",
                  ![r].sent = res.sent,
                  ![r].status = res.status,
                  ![r].detail = res.detail]
           /\ turns' = [turns EXCEPT ![id] = Append(@, r)]

\* GET /instructor/{id} up to the await of client.get (main.py:101-104).
ProfileStart(id) ==
    /\ Len(requests) < MaxReq
    /\ requests' = Append(requests,
          [kind |-> "profile",
           body |-> [message |-> << >>, instructor_id |-> {id}, profile_url |-> {}],
           message |-> << >>,
           instructor_id |-> id,
           url |-> ProfileUrl(id),
           pc |-> "fetch",
           absentAtStart |-> id \notin DOMAIN conversations,
           fetched |-> "pending",
           upstream |-> [type |-> "none", code |-> 0, text |-> << >>],
           doc |-> << >>,
           created |-> FALSE,
           completion |-> "none",
           sent |-> << >>,
           before |-> << >>,
           status |-> 0,
           detail |-> << >>])
    /\ UNCHANGED <<conversations, turns>>

\* GET /instructor/{id} returns the document or the fetch error.
ProfileFetchOk(r, doc) ==
    /\ requests[r].kind = "profile"
    /\ requests[r].pc = "fetch"
    /\ requests' = [requests EXCEPT ![r].pc = "done",
                                    ![r].fetched = "ok",
                                    ![r].doc = doc,
                                    ![r].status = 200,
                                    ![r].detail = JsonDumps(doc)]
    /\ UNCHANGED <<conversations, turns>>

ProfileFetchFail(r, err) ==
    /\ requests[r].kind = "profile"
    /\ requests[r].pc = "fetch"
    /\ LET exc == FetchException(err) IN
       requests' = [requests EXCEPT ![r].pc = "done",
                                    ![r].fetched = "failed",
                                    ![r].upstream = err,
                                    ![r].status = exc.status,
                                    ![r].detail = exc.detail]
    /\ UNCHANGED <<conversations, turns>>

\* The JSON bodies the clients post; a profile_url field comes with the
\* first message only.
Bodies ==
    { b \in [message : Messages, instructor_id : OptInstructorId,
             profile_url : OptProfileUrl] :
        b.profile_url = {} \/ b.message = <<"m1">> }

Next ==
    \/ \E body \in Bodies : ChatStart(body)
    \/ \E r \in DOMAIN requests, err \in FetchErrors : ChatFetchFail(r, err)
    \/ \E r \in DOMAIN requests, doc \in Docs, c \in Completions :
           ChatFetchOk(r, doc, c)
    \/ \E id \in Keys : ProfileStart(id)
    \/ \E r \in DOMAIN requests, doc \in Docs : ProfileFetchOk(r, doc)
    \/ \E r \in DOMAIN requests, err \in FetchErrors : ProfileFetchFail(r, err)

Spec == Init /\ [][Next]_vars

TypeOK ==
    /\ DOMAIN conversations \subseteq Keys
    /\ Len(requests) <= MaxReq

\* ---------------------------------------------------------------- helpers
IsPrefix(s, t) == Len(s) <= Len(t) /\ SubSeq(t, 1, Len(s)) = s

CountRole(msgs, role) == Cardinality({i \in DOMAIN msgs : msgs[i].role = role})

UserMsg(text) == [role |-> "user", content |-> text]
AssistantMsg(text) == [role |-> "assistant", content |-> text]
SystemMsg(text) == [role |-> "system", content |-> text]

ChatIds == {r \in DOMAIN requests : requests[r].kind = "chat"}

\* Chat requests whose generate_chat_response has run.
RanIds == {r \in ChatIds : requests[r].fetched = "ok"}

\* Every user message of msgs is directly followed by an assistant message.
NoDanglingUser(msgs) ==
    \A i \in DOMAIN msgs :
        msgs[i].role = "user" =>
            i < Len(msgs) /\ msgs[i + 1].role = "assistant"

\* ---------------------------------------------------------------- C1
\* C1: when the completion call of a chat turn fails, the call returns 500 and
\* the session of that key holds no user message without an assistant reply
\* directly after it (the failed turn appended nothing).
C1_FailedTurnLeavesNoUser ==
    \A r \in ChatIds :
        requests[r].completion = "failed" =>
            /\ requests[r].status = 500
            /\ requests[r].instructor_id \in DOMAIN conversations =>
                   NoDanglingUser(conversations[requests[r].instructor_id])

\* ---------------------------------------------------------------- C2
RECURSIVE TurnMessages(_)
TurnMessages(ids) ==
    IF ids = << >> THEN << >>
    ELSE << UserMsg(requests[ids[1]].body.message),
            AssistantMsg(requests[ids[1]].detail) >>
         \o TurnMessages(Tail(ids))

AllTurnsSucceeded(k) ==
    /\ turns[k] # << >>
    /\ \A r \in ChatIds :
          (requests[r].instructor_id = k /\ requests[r].pc = "done")
              => requests[r].completion = "ok"

\* C2: for a key whose N finished chat turns all succeeded, the session is
\* system, user_1, assistant_1, ..., user_N, assistant_N in the order the turns
\* ran, user_i the i-th turn's message and assistant_i the reply returned to
\* that turn's caller; its length is 1 + 2N.
C2_SessionOrder ==
    \A k \in Keys :
        AllTurnsSucceeded(k) =>
            /\ k \in DOMAIN conversations
            /\ conversations[k] =
                 << SystemMsg(create_system_prompt(requests[turns[k][1]].doc)) >>
                 \o TurnMessages(turns[k])
            /\ Len(conversations[k]) = 1 + 2 * Len(turns[k])

C2_Witness ==
    \E k \in Keys :
        /\ AllTurnsSucceeded(k)
        /\ Len(turns[k]) = 2
        /\ requests[turns[k][1]].body.message # requests[turns[k][2]].body.message
        /\ requests[turns[k][1]].detail # requests[turns[k][2]].detail

\* ---------------------------------------------------------------- C3
\* Two chat requests for one key that both arrived while the key was absent
\* and whose profile fetches both returned a document.
ConcurrentFirst(r1, r2) ==
    /\ r1 # r2
    /\ requests[r1].instructor_id = requests[r2].instructor_id
    /\ requests[r1].absentAtStart /\ requests[r2].absentAtStart

\* C3: two concurrent first chat calls for one new key leave a session with
\* exactly one system message that keeps the user messages of both calls.
C3_ConcurrentFirstTurns ==
    \A r1 \in RanIds, r2 \in RanIds :
        ConcurrentFirst(r1, r2) =>
            LET k == requests[r1].instructor_id
                p1 == Len(requests[r1].sent)
                p2 == Len(requests[r2].sent)
            IN  /\ k \in DOMAIN conversations
                /\ CountRole(conversations[k], "system") = 1
                /\ p1 # p2
                /\ p1 \in DOMAIN conversations[k]
                /\ p2 \in DOMAIN conversations[k]
                /\ conversations[k][p1] = UserMsg(requests[r1].body.message)
                /\ conversations[k][p2] = UserMsg(requests[r2].body.message)

C3_Witness ==
    \E r1 \in RanIds, r2 \in RanIds :
        /\ ConcurrentFirst(r1, r2)
        /\ requests[r1].doc # requests[r2].doc
        /\ requests[r1].body.message # requests[r2].body.message

NeitherIds ==
    {r \in ChatIds : requests[r].body.instructor_id = {}
                     /\ requests[r].body.profile_url = {}}

PatternUrl(body) ==
    <<"https://ace.prismaticcrm.com/api/instructor-profile/",
      IF body.instructor_id = {} THEN 24775
      ELSE CHOOSE i \in body.instructor_id : TRUE>>

Creators(k) ==
    {r \in RanIds : requests[r].instructor_id = k /\ requests[r].created}

OneSystemFromCreator ==
    \A k \in DOMAIN conversations :
        /\ CountRole(conversations[k], "system") = 1
        /\ conversations[k][1].role = "system"
        /\ Cardinality(Creators(k)) = 1
        /\ \A r \in Creators(k) :
              conversations[k][1].content =
                  <<"You are an AI assistant helping a teacher">>
                  \o JsonDumps(requests[r].doc) \o <<"Rules">>

\* C6: every session has exactly one system message, it is the first of the
\* list and it is the prompt built from the profile document of the turn that
\* created the session; no step changes the system message of a session, also
\* when a later turn fetched another document.
C6_SystemMessageFixed ==
    [][ /\ OneSystemFromCreator'
        /\ \A k \in DOMAIN conversations :
              /\ k \in DOMAIN conversations'
              /\ conversations'[k][1] = conversations[k][1] ]_vars

C6_Witness ==
    \E r1 \in RanIds, r2 \in RanIds :
        /\ requests[r1].instructor_id = requests[r2].instructor_id
        /\ requests[r1].created
        /\ ~requests[r2].created
        /\ requests[r1].doc # requests[r2].doc

\* ---------------------------------------------------------------- C7
\* The requests that take a step: the one that arrives or the one whose
\* record changes.
Acting ==
    {r \in DOMAIN requests' :
        r \notin DOMAIN requests \/ requests'[r] # requests[r]}

\* C7: a step of a request for key A leaves the message list of every other
\* key B as it was and creates no session for B.
C7_KeysIndependent ==
    [][ \A r \in Acting :
          \A k \in Keys \ {requests'[r].instructor_id} :
              /\ (k \in DOMAIN conversations') = (k \in DOMAIN conversations)
              /\ k \in DOMAIN conversations =>
                     conversations'[k] = conversations[k] ]_vars

C7_Witness ==
    \E r1 \in RanIds, r2 \in RanIds :
        /\ requests[r1].instructor_id # requests[r2].instructor_id
        /\ requests[r1].absentAtStart /\ requests[r2].absentAtStart
        /\ requests[r1].completion = "failed"
        /\ requests[r2].completion = "ok"

\* ---------------------------------------------------------------- C9
\* C9: a key becomes Active only in the step of a chat request for that key
\* whose profile fetch returned a document; an Active key stays Active; the
\* message list of a session is a prefix of its list after every step.
C9_ActiveForeverAppendOnly ==
    [][ /\ \A k \in DOMAIN conversations :
              /\ k \in DOMAIN conversations'
              /\ IsPrefix(conversations[k], conversations'[k])
        /\ \A k \in DOMAIN conversations' \ DOMAIN conversations :
              \E r \in ChatIds :
                  /\ requests[r].pc = "fetch"
                  /\ requests'[r].fetched = "ok"
                  /\ requests'[r].instructor_id = k
                  /\ Len(conversations'[k]) > 1 ]_vars

C9_Witness ==
    /\ \E r \in DOMAIN requests :
          /\ requests[r].kind = "profile"
          /\ requests[r].fetched = "ok"
          /\ requests[r].instructor_id \notin DOMAIN conversations
    /\ \E r \in ChatIds :
          /\ requests[r].completion = "ok"
          /\ Len(conversations[requests[r].instructor_id]) = 3

\* ---------------------------------------------------------------- C10
\* C10: generate_chat_response runs without interleaving: the list sent to the
\* completion endpoint is the session as the turn found it (seeded when it was
\* absent) followed by this request's user message, and a successful turn
\* leaves the reply directly after that user message.
C10_TurnIsAtomic ==
    \A r \in RanIds :
        LET k == requests[r].instructor_id
            n == Len(requests[r].sent)
        IN  /\ n >= 2
            /\ requests[r].sent[n] = UserMsg(requests[r].body.message)
            /\ ~requests[r].created =>
                   SubSeq(requests[r].sent, 1, n - 1) = requests[r].before
            /\ requests[r].created =>
                   (n = 2 /\ requests[r].sent[1].role = "system")
            /\ IsPrefix(requests[r].sent, conversations[k])
            /\ requests[r].completion = "ok" =>
                   /\ Len(conversations[k]) > n
                   /\ conversations[k][n + 1] = AssistantMsg(requests[r].detail)

\* Two chat requests for one key in flight together, run in the reverse of
\* their arrival order.
C10_Witness ==
    \E r1 \in RanIds, r2 \in RanIds :
        /\ r1 < r2
        /\ requests[r1].instructor_id = requests[r2].instructor_id
        /\ turns[requests[r1].instructor_id] = <<r2, r1>>
        /\ requests[r1].completion = "ok"
        /\ requests[r2].completion = "ok"
====
